---- MODULE Spec2Model ----
(***************************************************************************)
(* A model of the document service: the gin handlers of main.go and the    *)
(* MongoDB access functions of dbController.go.                            *)
(*                                                                         *)
(* The collection is a sequence of records in natural (insertion) order.   *)
(* A Go pointer field is a sequence of length at most one: <<>> is nil and *)
(* <<v>> points to v.  Every request is served by one of the Clients, each *)
(* standing for a goroutine of the HTTP server; a handler advances one     *)
(* store call at a time, so requests interleave between store calls.       *)
(***************************************************************************)
EXTENDS Integers, Sequences, FiniteSets, TLC

\* ------------------------------------------------------------------ bounds
MaxDocs == 3
MaxId == 2

\* ------------------------------------------------------------ data model
Clients == {"c1", "c2"}

Strs == {"a", "b"}

Nil == <<>>

Ptr(v) == <<v>>

IsNil(p) == Len(p) = 0

Deref(p) == p[1]

OptOf(S) == {Nil} \cup {Ptr(v) : v \in S}

DocumentContent == [header : OptOf(Strs), data : OptOf(Strs)]

Document == [id : OptOf(0..MaxId), title : OptOf(Strs),
             content : OptOf(DocumentContent), signee : OptOf(Strs)]

ZeroDocument == [id |-> Nil, title |-> Nil, content |-> Nil, signee |-> Nil]

\* DocumentStatus
OK == "OK"

NotFound == "NotFound"

CouldNotProceed == "CouldNotProceed"

ImplementationError == "ImplementationError"

\* net/http status codes
StatusOK == 200

StatusCreated == 201

StatusNoContent == 204

StatusBadRequest == 400

StatusNotFound == 404

StatusInternalServerError == 500

StatusBadGateway == 502

\* -------------------------------------------------- strconv.Atoi / Itoa
Digits == <<"0", "1", "2", "3", "4", "5", "6", "7", "8", "9">>

IsDigit(ch) == \E i \in 1..10 : Digits[i] = ch

DigitVal(ch) == (CHOOSE i \in 1..10 : Digits[i] = ch) - 1

RECURSIVE DigitsVal(_)
DigitsVal(s) ==
    IF Len(s) = 0 THEN 0
    ELSE 10 * DigitsVal(SubSeq(s, 1, Len(s) - 1)) + DigitVal(s[Len(s)])

\* toInt: [err, val]; a string is a sequence of characters
toInt(str) ==
    LET body == IF Len(str) > 0 /\ str[1] \in {"-", "+"} THEN Tail(str) ELSE str
        neg == Len(str) > 0 /\ str[1] = "-"
    IN  IF Len(body) = 0 \/ \E i \in 1..Len(body) : ~IsDigit(body[i])
        THEN [err |-> TRUE, val |-> 0]
        ELSE [err |-> FALSE,
              val |-> IF neg THEN 0 - DigitsVal(body) ELSE DigitsVal(body)]

RECURSIVE NatToStr(_)
NatToStr(n) ==
    IF n < 10 THEN <<Digits[n + 1]>>
    ELSE NatToStr(n \div 10) \o <<Digits[(n % 10) + 1]>>

toString(i) == IF i < 0 THEN <<"-">> \o NatToStr(0 - i) ELSE NatToStr(i)

\* ------------------------------------------------------------ the store
VARIABLES store, pc, req, loc, resp, deleted

vars == <<store, pc, req, loc, resp, deleted>>

\* the records of coll whose id field equals id, by position
Matching(coll, id) == {i \in 1..Len(coll) : coll[i].id = Ptr(id)}

Min(S) == CHOOSE x \in S : \A y \in S : x <= y

RemoveAt(coll, i) == SubSeq(coll, 1, i - 1) \o SubSeq(coll, i + 1, Len(coll))

\* bson decoding of a stored record into a Document
Decode(rec) ==
    [id |-> rec.id, title |-> rec.title,
     content |-> IF IsNil(rec.content) THEN Nil
                 ELSE Ptr([header |-> Deref(rec.content).header,
                           data |-> Deref(rec.content).data]),
     signee |-> rec.signee]

\* mongoCollection.FindOne with the filter {id: id}: the first match
FindOne(coll, id) ==
    IF Matching(coll, id) = {} THEN [found |-> FALSE, doc |-> ZeroDocument]
    ELSE [found |-> TRUE, doc |-> coll[Min(Matching(coll, id))]]

\* a sort on the id field: insertion of each record into the sorted prefix
RECURSIVE InsertSorted(_, _, _)
InsertSorted(sorted, rec, asc) ==
    IF Len(sorted) = 0 THEN <<rec>>
    ELSE IF (asc /\ Deref(rec.id) < Deref(Head(sorted).id))
            \/ (~asc /\ Deref(rec.id) > Deref(Head(sorted).id))
         THEN <<rec>> \o sorted
         ELSE <<Head(sorted)>> \o InsertSorted(Tail(sorted), rec, asc)

RECURSIVE SortById(_, _)
SortById(coll, asc) ==
    IF Len(coll) = 0 THEN <<>>
    ELSE InsertSorted(SortById(SubSeq(coll, 1, Len(coll) - 1), asc),
                      coll[Len(coll)], asc)

RECURSIVE DecodeAll(_)
DecodeAll(coll) ==
    IF Len(coll) = 0 THEN <<>>
    ELSE <<Decode(Head(coll))>> \o DecodeAll(Tail(coll))

\* ------------------------------------------------ Document Access Layer
\* a getDocument that takes every error of FindOne for mongo.ErrNoDocuments
getDocumentAnyErrorNotFound(coll, id, fail) ==
    IF fail THEN [status |-> NotFound, doc |-> <<>>]
    ELSE IF ~FindOne(coll, id).found THEN [status |-> NotFound, doc |-> <<>>]
    ELSE [status |-> OK, doc |-> <<Decode(FindOne(coll, id).doc)>>]

\* getDocument: fail is the store call failing with an error other than
\* mongo.ErrNoDocuments
getDocument(coll, id, fail) ==
    IF fail THEN [status |-> CouldNotProceed, doc |-> <<>>]
    ELSE IF ~FindOne(coll, id).found THEN [status |-> NotFound, doc |-> <<>>]
    ELSE [status |-> OK, doc |-> <<Decode(FindOne(coll, id).doc)>>]

\* a getDocuments that leaves the sort option out
getDocumentsUnsorted(coll, failFind, failAll) ==
    IF failFind THEN [status |-> CouldNotProceed, doc |-> <<>>]
    ELSE IF failAll THEN [status |-> CouldNotProceed, doc |-> <<>>]
    ELSE [status |-> OK, doc |-> DecodeAll(coll)]

\* getDocuments: failFind is Find failing, failAll is cursor.All failing
getDocuments(coll, failFind, failAll) ==
    IF failFind THEN [status |-> CouldNotProceed, doc |-> <<>>]
    ELSE IF failAll THEN [status |-> CouldNotProceed, doc |-> <<>>]
    ELSE [status |-> OK, doc |-> DecodeAll(SortById(coll, TRUE))]

\* a getNewId that counts the records instead of reading the highest id
getNewIdByCount(coll, fail) ==
    IF fail THEN [err |-> TRUE, id |-> -1] ELSE [err |-> FALSE, id |-> Len(coll)]

\* getNewId: [err, id]
getNewId(coll, fail) ==
    IF fail THEN [err |-> TRUE, id |-> -1]
    ELSE IF Len(coll) = 0 THEN [err |-> FALSE, id |-> 0]
    ELSE [err |-> FALSE, id |-> Deref(Decode(Head(SortById(coll, FALSE))).id) + 1]

\* an internalGetDocument that hands the status of getDocument through
internalGetDocumentAsIs(coll, id, fail) == getDocument(coll, id, fail)

\* internalGetDocument
internalGetDocument(coll, id, fail) ==
    LET r == getDocument(coll, id, fail)
    IN  IF r.status = OK THEN r
        ELSE IF r.status = CouldNotProceed
             THEN [status |-> CouldNotProceed, doc |-> <<>>]
             ELSE [status |-> ImplementationError, doc |-> <<>>]

\* deleteDocument: [status, coll]
deleteDocument(coll, id, fail) ==
    IF fail THEN [status |-> CouldNotProceed, coll |-> coll]
    ELSE IF Matching(coll, id) = {} THEN [status |-> NotFound, coll |-> coll]
    ELSE [status |-> OK, coll |-> RemoveAt(coll, Min(Matching(coll, id)))]

\* ----------------------------------------------------- toStrippedMap
\* JSON values: a number, a string or an object (a sequence of members)
JsonNum(n) == [t |-> "num", num |-> n, str |-> "", obj |-> <<>>]

JsonStr(x) == [t |-> "str", num |-> 0, str |-> x, obj |-> <<>>]

JsonObj(ms) == [t |-> "obj", num |-> 0, str |-> "", obj |-> ms]

Member(k, v) == [k |-> k, v |-> v]

\* json.Marshal of a DocumentContent: omitempty drops the nil pointers
MarshalContent(c) ==
    (IF IsNil(c.header) THEN <<>> ELSE <<Member("header", JsonStr(Deref(c.header)))>>)
    \o (IF IsNil(c.data) THEN <<>> ELSE <<Member("data", JsonStr(Deref(c.data)))>>)

\* json.Marshal of a Document: omitempty drops the nil pointers
Marshal(document) ==
    (IF IsNil(document.id) THEN <<>>
     ELSE <<Member("id", JsonNum(Deref(document.id)))>>)
    \o (IF IsNil(document.title) THEN <<>>
        ELSE <<Member("title", JsonStr(Deref(document.title)))>>)
    \o (IF IsNil(document.content) THEN <<>>
        ELSE <<Member("content", JsonObj(MarshalContent(Deref(document.content))))>>)
    \o (IF IsNil(document.signee) THEN <<>>
        ELSE <<Member("signee", JsonStr(Deref(document.signee)))>>)

\* flatten.FlattenString with DotStyle: a nested object is replaced by its
\* members under dotted keys, so an object without members leaves no key
RECURSIVE Flatten(_, _, _)
Flatten(ms, prefix, top) ==
    IF Len(ms) = 0 THEN <<>>
    ELSE LET m == Head(ms)
             newKey == IF top THEN prefix \o m.k ELSE prefix \o "." \o m.k
         IN  (IF m.v.t = "obj" THEN Flatten(m.v.obj, newKey, FALSE)
              ELSE <<Member(newKey, m.v)>>)
             \o Flatten(Tail(ms), prefix, top)

\* json.Unmarshal of the flat object into a map[string]interface{}
Unmarshal(ms) ==
    [k \in {ms[i].k : i \in 1..Len(ms)} |->
        ms[CHOOSE i \in 1..Len(ms) :
              ms[i].k = k /\ \A j \in (i + 1)..Len(ms) : ms[j].k # k].v]

\* a toStrippedMap that leaves the flattening out
toStrippedMapNested(document) == Unmarshal(Marshal(document))

toStrippedMap(document) == Unmarshal(Flatten(Marshal(document), "", TRUE))

\* the embedded document a $set of the whole key "content" stores
EmbeddedOf(ms) ==
    [header |-> IF \E i \in 1..Len(ms) : ms[i].k = "header"
                THEN Ptr(Unmarshal(ms)["header"].str) ELSE Nil,
     data |-> IF \E i \in 1..Len(ms) : ms[i].k = "data"
              THEN Ptr(Unmarshal(ms)["data"].str) ELSE Nil]

\* {$set: m} applied to one stored record
ApplySet(rec, m) ==
    LET K == DOMAIN m
        c0 == IF "content" \in K THEN EmbeddedOf(m["content"].obj)
              ELSE Deref(rec.content)
        c1 == [header |-> IF "content.header" \in K
                          THEN Ptr(m["content.header"].str) ELSE c0.header,
               data |-> IF "content.data" \in K
                        THEN Ptr(m["content.data"].str) ELSE c0.data]
    IN  [id |-> IF "id" \in K THEN Ptr(m["id"].num) ELSE rec.id,
         title |-> IF "title" \in K THEN Ptr(m["title"].str) ELSE rec.title,
         content |-> Ptr(c1),
         signee |-> IF "signee" \in K THEN Ptr(m["signee"].str) ELSE rec.signee]

\* an UpdateOne with the upsert option: it inserts when nothing matches
UpdateOneUpsert(coll, id, m, fail) ==
    IF fail THEN [err |-> TRUE, matched |-> 0, coll |-> coll]
    ELSE IF Matching(coll, id) = {}
    THEN [err |-> FALSE, matched |-> 0,
          coll |-> Append(coll,
                      ApplySet([id |-> Ptr(id), title |-> Nil,
                                content |-> Ptr([header |-> Nil, data |-> Nil]),
                                signee |-> Nil], m))]
    ELSE LET i == Min(Matching(coll, id))
         IN  [err |-> FALSE, matched |-> 1,
              coll |-> [coll EXCEPT ![i] = ApplySet(coll[i], m)]]

\* mongoCollection.UpdateOne with the filter {id: id}, no upsert: the first
\* match is updated; [err, matched, coll]
UpdateOne(coll, id, m, fail) ==
    IF fail THEN [err |-> TRUE, matched |-> 0, coll |-> coll]
    ELSE IF Matching(coll, id) = {} THEN [err |-> FALSE, matched |-> 0, coll |-> coll]
    ELSE LET i == Min(Matching(coll, id))
         IN  [err |-> FALSE, matched |-> 1,
              coll |-> [coll EXCEPT ![i] = ApplySet(coll[i], m)]]

\* an InsertOne on a collection with a unique index on id: a document whose
\* id is stored already is not written
InsertOneUnique(coll, document) ==
    IF Matching(coll, Deref(document.id)) # {} THEN coll
    ELSE Append(coll, [id |-> document.id, title |-> document.title,
                       content |-> document.content, signee |-> document.signee])

\* mongoCollection.InsertOne: the struct is stored field by field
InsertOne(coll, document) ==
    Append(coll, [id |-> document.id, title |-> document.title,
                  content |-> document.content, signee |-> document.signee])

\* ------------------------------------------------------- HTTP responses
HttpError(kind, a, b) == [kind |-> kind, a |-> a, b |-> b]

NoError == HttpError("", <<>>, <<>>)

NoReq == [op |-> "none", param |-> <<>>,
          body |-> [malformed |-> FALSE, doc |-> ZeroDocument]]

\* seen: the ids stored when getNewId read the collection
NoLoc == [id |-> 0, document |-> ZeroDocument, seen |-> {}]

\* sent counts the calls of sendJsonHttpResponse, calls the store calls issued;
\* failed tells that the last store call issued returned an error
NoResp == [sent |-> 0, code |-> 0, err |-> NoError, doc |-> <<>>,
           status |-> "", calls |-> 0, failed |-> FALSE]

sendJsonHttpResponse(r, httpCode, err, doc) ==
    [r EXCEPT !.sent = @ + 1, !.code = httpCode, !.err = err, !.doc = doc]

DatabaseError == HttpError("external database does not respond properly", <<>>, <<>>)

UnexpectedError == HttpError("unexpected server state", <<>>, <<>>)

NotANumberError(param) == HttpError("requested id is not a number", param, <<>>)

NoDocumentError(param) == HttpError("could not find document with id", param, <<>>)

\* a DocumentStatus returned by the access layer after n store calls so far
WithStatus(r, status, n, fail) ==
    [r EXCEPT !.status = status, !.calls = n, !.failed = fail]

\* the switch of handleGetDocument
GetSwitch(r, status, doc, param) ==
    IF status = OK THEN sendJsonHttpResponse(r, StatusOK, NoError, doc)
    ELSE IF status = NotFound
         THEN sendJsonHttpResponse(r, StatusNotFound, NoDocumentError(param), <<>>)
    ELSE IF status = CouldNotProceed
         THEN sendJsonHttpResponse(r, StatusBadGateway, DatabaseError, <<>>)
    ELSE sendJsonHttpResponse(r, StatusInternalServerError, UnexpectedError, <<>>)

\* the switch of handleGetDocuments
ListSwitch(r, status, docs) ==
    IF status = OK THEN sendJsonHttpResponse(r, StatusOK, NoError, docs)
    ELSE IF status = CouldNotProceed
         THEN sendJsonHttpResponse(r, StatusBadGateway, DatabaseError, <<>>)
    ELSE sendJsonHttpResponse(r, StatusInternalServerError, UnexpectedError, <<>>)

\* the switch of handleCreateDocument
CreateSwitch(r, status, doc) ==
    IF status = OK THEN sendJsonHttpResponse(r, StatusCreated, NoError, doc)
    ELSE IF status = CouldNotProceed
         THEN sendJsonHttpResponse(r, StatusBadGateway, DatabaseError, <<>>)
    ELSE sendJsonHttpResponse(r, StatusInternalServerError, UnexpectedError, <<>>)

\* a switch of handleUpdateDocument without the NotFound case
UpdateSwitchNoNotFound(r, status, doc, param) ==
    IF status = OK THEN sendJsonHttpResponse(r, StatusOK, NoError, doc)
    ELSE IF status = CouldNotProceed
         THEN sendJsonHttpResponse(r, StatusBadGateway, DatabaseError, <<>>)
    ELSE sendJsonHttpResponse(r, StatusInternalServerError, UnexpectedError, <<>>)

\* the switch of handleUpdateDocument
UpdateSwitch(r, status, doc, param) ==
    IF status = OK THEN sendJsonHttpResponse(r, StatusOK, NoError, doc)
    ELSE IF status = CouldNotProceed
         THEN sendJsonHttpResponse(r, StatusBadGateway, DatabaseError, <<>>)
    ELSE IF status = NotFound
         THEN sendJsonHttpResponse(r, StatusNotFound, NoDocumentError(param), <<>>)
    ELSE sendJsonHttpResponse(r, StatusInternalServerError, UnexpectedError, <<>>)

\* the switch of handleDeleteDocument
DeleteSwitch(r, status, param) ==
    IF status = OK THEN sendJsonHttpResponse(r, StatusNoContent, NoError, <<>>)
    ELSE IF status = CouldNotProceed
         THEN sendJsonHttpResponse(r, StatusBadGateway, DatabaseError, <<>>)
    ELSE IF status = NotFound
         THEN sendJsonHttpResponse(r, StatusNotFound, NoDocumentError(param), <<>>)
    ELSE sendJsonHttpResponse(r, StatusInternalServerError, UnexpectedError, <<>>)

\* ------------------------------------------------------ Validation layer
\* an isCompleteDocument that forgets content.data
isCompleteDocumentNoData(document) ==
    IF ~IsNil(document.content)
    THEN /\ ~IsNil(document.title)
         /\ ~IsNil(Deref(document.content).header)
         /\ ~IsNil(document.signee)
    ELSE FALSE

isCompleteDocument(document) ==
    IF ~IsNil(document.content)
    THEN /\ ~IsNil(document.title)
         /\ ~IsNil(Deref(document.content).header)
         /\ ~IsNil(Deref(document.content).data)
         /\ ~IsNil(document.signee)
    ELSE FALSE

\* an isValidPatchDocument that takes a content object for a content field
isValidPatchDocumentAnyContent(document) ==
    ~IsNil(document.content) \/ ~IsNil(document.title) \/ ~IsNil(document.signee)

isValidPatchDocument(document) ==
    LET existingContent ==
            IF ~IsNil(document.content)
            THEN \/ ~IsNil(Deref(document.content).header)
                 \/ ~IsNil(Deref(document.content).data)
            ELSE FALSE
    IN  existingContent \/ ~IsNil(document.title) \/ ~IsNil(document.signee)

\* the path id check that opens handleGetDocument and handleDeleteDocument:
\* [ok, id, resp], resp being the response of a rejected request
ValidateIdParam(param) ==
    IF toInt(param).err
    THEN [ok |-> FALSE, id |-> 0,
          resp |-> sendJsonHttpResponse(NoResp, StatusBadRequest,
                                        NotANumberError(param), <<>>)]
    ELSE [ok |-> TRUE, id |-> toInt(param).val, resp |-> NoResp]

\* a handleCreateDocument without the isCompleteDocument check
ValidateCreateBindOnly(body) ==
    IF body.malformed
    THEN [ok |-> FALSE,
          resp |-> sendJsonHttpResponse(NoResp, StatusBadRequest,
                       HttpError("illegal structure of json object", <<>>, <<>>), <<>>)]
    ELSE [ok |-> TRUE, resp |-> NoResp]

\* the checks of handleCreateDocument before createDocument: [ok, resp]
ValidateCreate(body) ==
    IF body.malformed
    THEN [ok |-> FALSE,
          resp |-> sendJsonHttpResponse(NoResp, StatusBadRequest,
                       HttpError("illegal structure of json object", <<>>, <<>>), <<>>)]
    ELSE IF ~isCompleteDocument(body.doc)
    THEN [ok |-> FALSE,
          resp |-> sendJsonHttpResponse(NoResp, StatusBadRequest,
                       HttpError("not a valid document for creation", <<>>, <<>>), <<>>)]
    ELSE [ok |-> TRUE, resp |-> NoResp]

\* a handleUpdateDocument that lets the id of the body win over the path id
ValidateUpdateBodyIdWins(param, body) ==
    IF toInt(param).err
    THEN [ok |-> FALSE, patchDocument |-> body.doc,
          resp |-> sendJsonHttpResponse(NoResp, StatusBadRequest,
                                        NotANumberError(param), <<>>)]
    ELSE IF body.malformed
    THEN [ok |-> FALSE, patchDocument |-> body.doc,
          resp |-> sendJsonHttpResponse(NoResp, StatusBadRequest,
                       HttpError("illegal structure of json object", <<>>, <<>>), <<>>)]
    ELSE IF ~isValidPatchDocument(body.doc)
    THEN [ok |-> FALSE, patchDocument |-> body.doc,
          resp |-> sendJsonHttpResponse(NoResp, StatusBadRequest,
                       HttpError("not a valid document for update", <<>>, <<>>), <<>>)]
    ELSE IF ~IsNil(body.doc.id)
    THEN [ok |-> TRUE, patchDocument |-> body.doc, resp |-> NoResp]
    ELSE [ok |-> TRUE,
          patchDocument |-> [body.doc EXCEPT !.id = Ptr(toInt(param).val)],
          resp |-> NoResp]

\* the checks of handleUpdateDocument before updateDocument:
\* [ok, patchDocument, resp]
ValidateUpdate(param, body) ==
    IF toInt(param).err
    THEN [ok |-> FALSE, patchDocument |-> body.doc,
          resp |-> sendJsonHttpResponse(NoResp, StatusBadRequest,
                                        NotANumberError(param), <<>>)]
    ELSE IF body.malformed
    THEN [ok |-> FALSE, patchDocument |-> body.doc,
          resp |-> sendJsonHttpResponse(NoResp, StatusBadRequest,
                       HttpError("illegal structure of json object", <<>>, <<>>), <<>>)]
    ELSE IF ~isValidPatchDocument(body.doc)
    THEN [ok |-> FALSE, patchDocument |-> body.doc,
          resp |-> sendJsonHttpResponse(NoResp, StatusBadRequest,
                       HttpError("not a valid document for update", <<>>, <<>>), <<>>)]
    ELSE IF ~IsNil(body.doc.id)
    THEN IF Deref(body.doc.id) # toInt(param).val
         THEN [ok |-> FALSE, patchDocument |-> body.doc,
               resp |-> sendJsonHttpResponse(NoResp, StatusBadRequest,
                            HttpError("id in request does not correspond to id in json object",
                                      toString(toInt(param).val),
                                      toString(Deref(body.doc.id))), <<>>)]
         ELSE [ok |-> TRUE, patchDocument |-> body.doc, resp |-> NoResp]
    ELSE [ok |-> TRUE,
          patchDocument |-> [body.doc EXCEPT !.id = Ptr(toInt(param).val)],
          resp |-> NoResp]

\* createDocument, lines 145-147: set and overwrite a potential existing id
OverwriteId(document, newId) == [document EXCEPT !.id = Ptr(newId)]

\* --------------------------------------------------------------- state
Request(op, param, body) == [op |-> op, param |-> param, body |-> body]

NoBody == [malformed |-> FALSE, doc |-> ZeroDocument]

Init ==
    /\ store = <<>>
    /\ pc = [c \in Clients |-> "idle"]
    /\ req = [c \in Clients |-> NoReq]
    /\ loc = [c \in Clients |-> NoLoc]
    /\ resp = [c \in Clients |-> NoResp]
    /\ deleted = {}

\* ------------------------------------------------------- request inputs
Params == {toString(i) : i \in 0..MaxId} \cup {<<"x">>}

\* every Document whose strings are drawn from S and whose id from I
DocumentsOver(I, S) ==
    [id : OptOf(I), title : OptOf(S),
     content : OptOf([header : OptOf(S), data : OptOf(S)]), signee : OptOf(S)]

\* what bindDocument returns: the document, and whether BindJSON failed
Body(d) == [malformed |-> FALSE, doc |-> d]

Malformed == [malformed |-> TRUE, doc |-> ZeroDocument]

Bodies(I, S) == {Malformed} \cup {Body(d) : d \in DocumentsOver(I, S)}

\* POST bodies: every combination of present and absent fields, with and
\* without an id of the client's choosing
CreateBodies == Bodies({1}, {"a"})

\* the POST bodies of the full service model
FewCreateBodies ==
    {Malformed, Body([ZeroDocument EXCEPT !.title = Ptr("a")])}
    \cup {Body(d) : d \in {x \in DocumentsOver({1}, {"a"}) : isCompleteDocument(x)}}

\* PATCH bodies: every combination of present and absent fields and ids
PatchBodies == Bodies(0..1, {"b"})

\* the PATCH bodies of the full service model
FewPatchBodies ==
    {Malformed,
     Body(ZeroDocument),
     Body([ZeroDocument EXCEPT !.id = Ptr(1),
                               !.content = Ptr([header |-> Ptr("b"), data |-> Nil])])}

\* -------------------------------------------------------------- actions
\* the request of client c ends with response r
Finish(c, r) ==
    /\ pc' = [pc EXCEPT ![c] = "done"]
    /\ resp' = [resp EXCEPT ![c] = r]

\* a written response is read before any other step is taken: the handler
\* that wrote it returns next (Return changes nothing another request reads)
NoResponsePending == \A c \in Clients : pc[c] # "done"

\* GET /documents/:id
HandleGetDocument(c) ==
    /\ NoResponsePending
    /\ pc[c] = "idle"
    /\ \E param \in Params, fail \in BOOLEAN :
          /\ req' = [req EXCEPT ![c] = Request("get", param, NoBody)]
          /\ LET v == ValidateIdParam(param)
                 r == getDocument(store, v.id, fail)
             IN  IF ~v.ok THEN Finish(c, v.resp)
                 ELSE Finish(c, GetSwitch(WithStatus(NoResp, r.status, 1, fail),
                                          r.status, r.doc, param))
    /\ UNCHANGED <<store, loc, deleted>>

\* GET /documents
HandleGetDocuments(c) ==
    /\ NoResponsePending
    /\ pc[c] = "idle"
    /\ \E failFind, failAll \in BOOLEAN :
          /\ req' = [req EXCEPT ![c] = Request("list", <<>>, NoBody)]
          /\ LET r == getDocuments(store, failFind, failAll)
             IN  Finish(c, ListSwitch(WithStatus(NoResp, r.status,
                                                 IF failFind THEN 1 ELSE 2,
                                                 failFind \/ failAll),
                                      r.status, r.doc))
    /\ UNCHANGED <<store, loc, deleted>>

\* DELETE /documents/:id
HandleDeleteDocument(c) ==
    /\ NoResponsePending
    /\ pc[c] = "idle"
    /\ \E param \in Params, fail \in BOOLEAN :
          /\ req' = [req EXCEPT ![c] = Request("delete", param, NoBody)]
          /\ LET v == ValidateIdParam(param)
                 r == deleteDocument(store, v.id, fail)
             IN  IF ~v.ok
                 THEN Finish(c, v.resp) /\ UNCHANGED <<store, deleted>>
                 ELSE /\ Finish(c, DeleteSwitch(WithStatus(NoResp, r.status, 1, fail),
                                                r.status, param))
                      /\ store' = r.coll
                      /\ deleted' = IF r.status = OK THEN deleted \cup {v.id}
                                    ELSE deleted
    /\ UNCHANGED loc

\* the creates that hold a new id and have not inserted yet
PendingInserts == {c \in Clients : pc[c] = "insert"}

\* POST /documents with a body of bodies, up to the getNewId call of
\* createDocument
HandleCreateDocument(c, bodies) ==
    /\ NoResponsePending
    /\ pc[c] = "idle"
    /\ \E body \in bodies, fail \in BOOLEAN :
          /\ req' = [req EXCEPT ![c] = Request("create", <<>>, body)]
          /\ LET v == ValidateCreate(body)
                 n == getNewId(store, fail)
             IN  IF ~v.ok THEN Finish(c, v.resp) /\ UNCHANGED loc
                 ELSE IF n.err
                 THEN /\ Finish(c, CreateSwitch(
                                      WithStatus(NoResp, CouldNotProceed, 1, TRUE),
                                      CouldNotProceed, <<>>))
                      /\ UNCHANGED loc
                 ELSE /\ n.id <= MaxId
                      /\ Len(store) + Cardinality(PendingInserts) < MaxDocs
                      /\ pc' = [pc EXCEPT ![c] = "insert"]
                      /\ loc' = [loc EXCEPT ![c] =
                                    [id |-> n.id,
                                     document |-> OverwriteId(body.doc, n.id),
                                     seen |-> {Deref(store[i].id) : i \in 1..Len(store)}]]
                      /\ resp' = [resp EXCEPT ![c] = WithStatus(NoResp, "", 1, FALSE)]
    /\ UNCHANGED <<store, deleted>>

\* createDocument, the InsertOne call
CreateInsert(c) ==
    /\ NoResponsePending
    /\ pc[c] = "insert"
    /\ \E fail \in BOOLEAN :
          IF fail
          THEN /\ Finish(c, CreateSwitch(WithStatus(resp[c], CouldNotProceed, 2, TRUE),
                                         CouldNotProceed, <<>>))
               /\ UNCHANGED <<store, deleted>>
          ELSE /\ store' = InsertOne(store, loc[c].document)
               /\ deleted' = deleted \ {loc[c].id}
               /\ pc' = [pc EXCEPT ![c] = "refetch"]
               /\ resp' = [resp EXCEPT ![c] = WithStatus(resp[c], "", 2, FALSE)]
    /\ UNCHANGED <<req, loc>>

\* createDocument, the closing internalGetDocument call
CreateRefetch(c) ==
    /\ NoResponsePending
    /\ pc[c] = "refetch"
    /\ req[c].op = "create"
    /\ \E fail \in BOOLEAN :
          LET r == internalGetDocument(store, loc[c].id, fail)
          IN  Finish(c, CreateSwitch(WithStatus(resp[c], r.status, 3, fail),
                                     r.status, r.doc))
    /\ UNCHANGED <<store, req, loc, deleted>>

\* an updateDocument that takes an absent identifier for identifier 0
updateDocumentNilIdAsZero(coll, patchDocument, fail) ==
    LET id == IF IsNil(patchDocument.id) THEN 0 ELSE Deref(patchDocument.id)
        u == UpdateOne(coll, id, toStrippedMap(patchDocument), fail)
    IN  IF u.err
        THEN [status |-> CouldNotProceed, coll |-> u.coll, id |-> id, calls |-> 1]
        ELSE IF u.matched = 0
        THEN [status |-> NotFound, coll |-> u.coll, id |-> id, calls |-> 1]
        ELSE [status |-> "", coll |-> u.coll, id |-> id, calls |-> 1]

\* updateDocument up to its UpdateOne call: [status, coll, id, calls];
\* status "" is the call having matched, the re-fetch being still to come
updateDocument(coll, patchDocument, fail) ==
    IF IsNil(patchDocument.id)
    THEN [status |-> ImplementationError, coll |-> coll, id |-> 0, calls |-> 0]
    ELSE LET id == Deref(patchDocument.id)
             u == UpdateOne(coll, id, toStrippedMap(patchDocument), fail)
         IN  IF u.err
             THEN [status |-> CouldNotProceed, coll |-> u.coll, id |-> id, calls |-> 1]
             ELSE IF u.matched = 0
             THEN [status |-> NotFound, coll |-> u.coll, id |-> id, calls |-> 1]
             ELSE [status |-> "", coll |-> u.coll, id |-> id, calls |-> 1]

\* PATCH /documents/:id with a body of bodies, up to the UpdateOne call of
\* updateDocument
HandleUpdateDocument(c, bodies) ==
    /\ NoResponsePending
    /\ pc[c] = "idle"
    /\ \E param \in Params, body \in bodies, fail \in BOOLEAN :
          /\ req' = [req EXCEPT ![c] = Request("update", param, body)]
          /\ LET v == ValidateUpdate(param, body)
                 u == updateDocument(store, v.patchDocument, fail)
             IN  IF ~v.ok THEN Finish(c, v.resp) /\ UNCHANGED <<store, loc>>
                 ELSE IF u.status # ""
                 THEN /\ Finish(c, UpdateSwitch(
                                      WithStatus(NoResp, u.status, u.calls,
                                                 u.calls > 0 /\ fail),
                                      u.status, <<>>, param))
                      /\ store' = u.coll
                      /\ UNCHANGED loc
                 ELSE /\ store' = u.coll
                      /\ pc' = [pc EXCEPT ![c] = "refetch"]
                      /\ loc' = [loc EXCEPT ![c] =
                                    [id |-> u.id, document |-> v.patchDocument,
                                     seen |-> {}]]
                      /\ resp' = [resp EXCEPT ![c] =
                                     WithStatus(NoResp, "", u.calls, FALSE)]
    /\ UNCHANGED deleted

\* updateDocument, the closing internalGetDocument call
UpdateRefetch(c) ==
    /\ NoResponsePending
    /\ pc[c] = "refetch"
    /\ req[c].op = "update"
    /\ \E fail \in BOOLEAN :
          LET r == internalGetDocument(store, loc[c].id, fail)
          IN  Finish(c, UpdateSwitch(WithStatus(resp[c], r.status, 2, fail),
                                     r.status, r.doc, req[c].param))
    /\ UNCHANGED <<store, req, loc, deleted>>

\* the handler returns and the goroutine is free for the next request
Return(c) ==
    /\ pc[c] = "done"
    /\ pc' = [pc EXCEPT ![c] = "idle"]
    /\ req' = [req EXCEPT ![c] = NoReq]
    /\ loc' = [loc EXCEPT ![c] = NoLoc]
    /\ resp' = [resp EXCEPT ![c] = NoResp]
    /\ UNCHANGED <<store, deleted>>

\* ------------------------------------------------------- specifications
\* the service: every request kind, requests interleaving between store calls
Next ==
    \E c \in Clients :
        \/ HandleGetDocument(c)
        \/ HandleGetDocuments(c)
        \/ HandleCreateDocument(c, FewCreateBodies)
        \/ CreateInsert(c)
        \/ CreateRefetch(c)
        \/ HandleUpdateDocument(c, FewPatchBodies)
        \/ UpdateRefetch(c)
        \/ HandleDeleteDocument(c)
        \/ Return(c)

Spec == Init /\ [][Next]_vars

\* POST requests with every body, and the deletes that free identifiers
PostNext ==
    \E c \in Clients :
        \/ HandleCreateDocument(c, CreateBodies)
        \/ CreateInsert(c)
        \/ CreateRefetch(c)
        \/ HandleDeleteDocument(c)
        \/ Return(c)

PostSpec == Init /\ [][PostNext]_vars

\* PATCH requests with every body, on a collection of one created document
PatchInit ==
    /\ store \in {InsertOne(<<>>, OverwriteId(d, 0)) :
                     d \in {x \in DocumentsOver({}, {"a"}) : isCompleteDocument(x)}}
    /\ pc = [c \in Clients |-> "idle"]
    /\ req = [c \in Clients |-> NoReq]
    /\ loc = [c \in Clients |-> NoLoc]
    /\ resp = [c \in Clients |-> NoResp]
    /\ deleted = {}

PatchNext ==
    \E c \in Clients :
        \/ HandleUpdateDocument(c, PatchBodies)
        \/ UpdateRefetch(c)
        \/ Return(c)

PatchSpec == PatchInit /\ [][PatchNext]_vars

\* POST bodies that differ in every field: a complete document of "a"s and
\* one of "b"s
RaceCreateBodies ==
    {Body([id |-> Nil, title |-> Ptr(x),
           content |-> Ptr([header |-> Ptr(x), data |-> Ptr(x)]),
           signee |-> Ptr(x)]) : x \in Strs}

\* POST requests with distinguishable bodies, and deletes; no PATCH
RaceNext ==
    \E c \in Clients :
        \/ HandleCreateDocument(c, RaceCreateBodies)
        \/ CreateInsert(c)
        \/ CreateRefetch(c)
        \/ HandleDeleteDocument(c)
        \/ Return(c)

RaceSpec == Init /\ [][RaceNext]_vars

\* a GET or DELETE /documents/:id up to its store call, FindOne or DeleteOne,
\* which is left outstanding
CallStore(c) ==
    /\ pc[c] = "idle"
    /\ \E op \in {"get", "delete"}, param \in Params :
          /\ req' = [req EXCEPT ![c] = Request(op, param, NoBody)]
          /\ LET v == ValidateIdParam(param)
             IN  IF ~v.ok THEN Finish(c, v.resp)
                 ELSE /\ pc' = [pc EXCEPT ![c] = "call"]
                      /\ resp' = [resp EXCEPT ![c] = WithStatus(NoResp, "", 1, FALSE)]
    /\ UNCHANGED <<store, loc, deleted>>

\* the deadline of c's request passes while its store call is outstanding:
\* the call was given context.TODO(), which carries no deadline and is never
\* cancelled, so the call stays outstanding
DeadlineExpires(c) ==
    /\ pc[c] = "call"
    /\ pc' = [pc EXCEPT ![c] = "expired"]
    /\ UNCHANGED <<store, req, loc, resp, deleted>>

\* the store answers c's outstanding call, with a result or with an error
StoreAnswers(c) ==
    /\ pc[c] \in {"call", "expired"}
    /\ \E fail \in BOOLEAN :
          LET id == toInt(req[c].param).val
              g == getDocument(store, id, fail)
              d == deleteDocument(store, id, fail)
          IN  IF req[c].op = "get"
              THEN /\ Finish(c, GetSwitch(WithStatus(resp[c], g.status, 1, fail),
                                          g.status, g.doc, req[c].param))
                   /\ UNCHANGED <<store, deleted>>
              ELSE /\ Finish(c, DeleteSwitch(WithStatus(resp[c], d.status, 1, fail),
                                             d.status, req[c].param))
                   /\ store' = d.coll
                   /\ deleted' = IF d.status = OK THEN deleted \cup {id} ELSE deleted
    /\ UNCHANGED <<req, loc>>

\* an empty collection or a collection of one created document
CancelInit ==
    /\ store \in {<<>>} \cup
                 {InsertOne(<<>>, OverwriteId(d, i)) :
                     d \in {x \in DocumentsOver({}, {"a"}) : isCompleteDocument(x)},
                     i \in 0..MaxId}
    /\ pc = [c \in Clients |-> "idle"]
    /\ req = [c \in Clients |-> NoReq]
    /\ loc = [c \in Clients |-> NoLoc]
    /\ resp = [c \in Clients |-> NoResp]
    /\ deleted = {}

CancelNext ==
    \E c \in Clients :
        \/ CallStore(c)
        \/ DeadlineExpires(c)
        \/ StoreAnswers(c)
        \/ Return(c)

\* time passes and a handler that has written its response returns; nothing
\* makes the store answer
CancelSpec ==
    /\ CancelInit
    /\ [][CancelNext]_vars
    /\ \A c \in Clients : WF_vars(DeadlineExpires(c)) /\ WF_vars(Return(c))

\* no other client is inside a create
NoOtherCreate(c) ==
    \A d \in Clients \ {c} :
        ~(req[d].op = "create" /\ pc[d] \in {"insert", "refetch", "done"})

\* the service with its creates executed one at a time
SerialNext ==
    \E c \in Clients :
        \/ HandleGetDocument(c)
        \/ HandleGetDocuments(c)
        \/ (NoOtherCreate(c) /\ HandleCreateDocument(c, FewCreateBodies))
        \/ CreateInsert(c)
        \/ CreateRefetch(c)
        \/ HandleUpdateDocument(c, FewPatchBodies)
        \/ UpdateRefetch(c)
        \/ HandleDeleteDocument(c)
        \/ Return(c)

SerialSpec == Init /\ [][SerialNext]_vars

\* ---------------------------------------------------------------- claims
Max(S) == CHOOSE x \in S : \A y \in S : x >= y

Done(c, op) == pc[c] = "done" /\ req[c].op = op

\* C1: a create that returns 201 returns a document whose identifier is the
\* highest identifier stored when the create read the collection, plus one,
\* or 0 if the collection was empty then, whatever identifier the body carried
C1_CreatedIdIsMaxPlusOne ==
    \A c \in Clients :
        (Done(c, "create") /\ resp[c].code = StatusCreated)
        => /\ Len(resp[c].doc) = 1
           /\ resp[c].doc[1].id =
                 Ptr(IF loc[c].seen = {} THEN 0 ELSE Max(loc[c].seen) + 1)

\* a create whose body carried id 1 returned id 2, the collection having held
\* the single id 1
C1_Witness ==
    \E c \in Clients :
        /\ Done(c, "create") /\ resp[c].code = StatusCreated
        /\ req[c].body.doc.id = Ptr(1)
        /\ loc[c].seen = {1}
        /\ resp[c].doc[1].id = Ptr(2)

\* the four fields of a document or stored record other than its identifier
FieldNames == {"title", "signee", "content.header", "content.data"}

\* the value of field f of record d, Nil if absent
FieldOf(d, f) ==
    IF f = "title" THEN d.title
    ELSE IF f = "signee" THEN d.signee
    ELSE IF IsNil(d.content) THEN Nil
    ELSE IF f = "content.header" THEN Deref(d.content).header
    ELSE Deref(d.content).data

\* client c's PATCH has just matched and updated a stored record
UpdateApplied(c) ==
    pc[c] = "idle" /\ pc'[c] = "refetch" /\ req'[c].op = "update"

\* C2: the field-level update of a PATCH leaves every field of the matched
\* record that the patch does not carry as it was and gives every field the
\* patch carries the patch's value
C2_UpdateMergesProvidedFields ==
    [][\A c \in Clients :
          UpdateApplied(c) =>
             LET i == Min(Matching(store, loc'[c].id))
                 patch == req'[c].body.doc
             IN  /\ Len(store') = Len(store)
                 /\ \A f \in FieldNames :
                       FieldOf(store'[i], f) =
                          IF IsNil(FieldOf(patch, f)) THEN FieldOf(store[i], f)
                          ELSE FieldOf(patch, f)]_vars

\* one PATCH carrying only content.header and one carrying a title and an
\* empty content object have been applied, and content.data is as created
C2_Witness ==
    \E c1, c2 \in Clients :
        /\ pc[c1] = "refetch" /\ pc[c2] = "refetch"
        /\ req[c1].body.doc =
              [ZeroDocument EXCEPT
                  !.content = Ptr([header |-> Ptr("b"), data |-> Nil])]
        /\ req[c2].body.doc =
              [ZeroDocument EXCEPT
                  !.title = Ptr("b"), !.content = Ptr([header |-> Nil, data |-> Nil])]
        /\ FieldOf(store[1], "content.header") = Ptr("b")
        /\ FieldOf(store[1], "content.data") = Ptr("a")
        /\ FieldOf(store[1], "title") = Ptr("b")

\* client c's get, update or delete of identifier i has just issued its first
\* store call, and the call returned without an error
Addressed(c, i) ==
    /\ pc[c] = "idle" /\ pc'[c] # "idle"
    /\ req'[c].op \in {"get", "update", "delete"}
    /\ resp'[c].calls = 1 /\ ~resp'[c].failed
    /\ req'[c].param = toString(i)

AnsweredNotFound(c) == pc'[c] = "done" /\ resp'[c].code = StatusNotFound

\* C3: a delete of an identifier that is not stored answers 404 and
\* changes nothing, and once a delete of i has answered 204 every get, update
\* and delete of i answers 404 until a create inserts i again
C3_DeletedStaysNotFound ==
    [][\A c \in Clients, i \in 0..MaxId :
          /\ (Addressed(c, i) /\ req'[c].op = "delete" /\ Matching(store, i) = {})
                => (AnsweredNotFound(c) /\ store' = store)
          /\ (Addressed(c, i) /\ i \in deleted) => AnsweredNotFound(c)]_vars

\* client c's PATCH carries a body identifier that differs from its numeric
\* path identifier
IdMismatch(c) ==
    /\ req[c].op = "update"
    /\ \E i \in 0..MaxId : req[c].param = toString(i)
    /\ ~req[c].body.malformed
    /\ ~IsNil(req[c].body.doc.id)
    /\ toString(Deref(req[c].body.doc.id)) # req[c].param

IdConflictResponse(c) ==
    /\ pc[c] = "done"
    /\ resp[c].sent = 1
    /\ resp[c].code = StatusBadRequest
    /\ resp[c].err = HttpError("id in request does not correspond to id in json object",
                               req[c].param, toString(Deref(req[c].body.doc.id)))
    /\ resp[c].calls = 0

\* some field other than the identifier is present in document d
SomeFieldPresent(d) == \E f \in FieldNames : ~IsNil(FieldOf(d, f))

\* C4: a PATCH whose body identifier differs from the path identifier is
\* answered with the 400 id conflict response naming both identifiers, whatever
\* else the body holds, and no store call is issued
C4_IdMismatchAlwaysConflict ==
    \A c \in Clients : IdMismatch(c) => IdConflictResponse(c)

\* C4 as amended: such a PATCH is answered 400 without a store call; the
\* response is the id conflict response if the body holds at least one of
\* title, signee, content.header, content.data, and the empty patch response
\* if it holds none
C4_IdMismatchRejected ==
    \A c \in Clients :
        IdMismatch(c) =>
           /\ pc[c] = "done" /\ resp[c].sent = 1 /\ resp[c].calls = 0
           /\ resp[c].code = StatusBadRequest
           /\ IF SomeFieldPresent(req[c].body.doc) THEN IdConflictResponse(c)
              ELSE resp[c].err = HttpError("not a valid document for update", <<>>, <<>>)

\* PATCH /documents/0 with body id 1 and a title has been answered with the id
\* conflict response
C4_Witness ==
    \E c \in Clients :
        /\ IdMismatch(c) /\ IdConflictResponse(c)
        /\ req[c].param = <<"0">>
        /\ req[c].body.doc.id = Ptr(1)
        /\ ~IsNil(req[c].body.doc.title)
        /\ resp[c].err.a = <<"0">> /\ resp[c].err.b = <<"1">>

\* every field other than the identifier is present in document d
EveryFieldPresent(d) == \A f \in FieldNames : ~IsNil(FieldOf(d, f))

IncompleteResponse(c) ==
    /\ pc[c] = "done"
    /\ resp[c].sent = 1
    /\ resp[c].code = StatusBadRequest
    /\ resp[c].err = HttpError("not a valid document for creation", <<>>, <<>>)
    /\ resp[c].calls = 0

\* C5: isCompleteDocument holds of a body exactly if title, signee,
\* content.header and content.data are all present, whatever its identifier;
\* a POST whose body fails it is answered 400 and createDocument is not called
C5_CompleteIffEveryFieldPresent ==
    \A c \in Clients :
        (req[c].op = "create" /\ ~req[c].body.malformed) =>
           /\ isCompleteDocument(req[c].body.doc) <=> EveryFieldPresent(req[c].body.doc)
           /\ IncompleteResponse(c) <=> ~EveryFieldPresent(req[c].body.doc)
           /\ ~EveryFieldPresent(req[c].body.doc) => loc[c] = NoLoc

\* a POST whose body lacks only content.data has been answered 400
C5_Witness ==
    \E c \in Clients :
        /\ req[c].op = "create"
        /\ IncompleteResponse(c)
        /\ req[c].body.doc =
              [ZeroDocument EXCEPT
                  !.title = Ptr("a"), !.signee = Ptr("a"),
                  !.content = Ptr([header |-> Ptr("a"), data |-> Nil])]

EmptyPatchResponse(c) ==
    /\ pc[c] = "done"
    /\ resp[c].sent = 1
    /\ resp[c].code = StatusBadRequest
    /\ resp[c].err = HttpError("not a valid document for update", <<>>, <<>>)
    /\ resp[c].calls = 0

\* C6: isValidPatchDocument holds of a body exactly if at least one of title,
\* signee, content.header, content.data is present; it fails for a body with
\* only an identifier and for one with only an empty content object
C6_ValidPatchIffSomeFieldPresent ==
    \A c \in Clients :
        (/\ req[c].op = "update" /\ ~req[c].body.malformed
         /\ \E i \in 0..MaxId : req[c].param = toString(i)) =>
           /\ isValidPatchDocument(req[c].body.doc) <=> SomeFieldPresent(req[c].body.doc)
           /\ EmptyPatchResponse(c) <=> ~SomeFieldPresent(req[c].body.doc)

\* a PATCH whose body holds an identifier and an empty content object, and
\* nothing else, has been answered 400
C6_Witness ==
    \E c \in Clients :
        /\ req[c].op = "update"
        /\ EmptyPatchResponse(c)
        /\ req[c].body.doc =
              [ZeroDocument EXCEPT
                  !.id = Ptr(0), !.content = Ptr([header |-> Nil, data |-> Nil])]

\* how many times x occurs in sequence q
Occurrences(q, x) == Cardinality({i \in 1..Len(q) : q[i] = x})

\* C7: a list that answers 200 returns exactly the stored records, each as
\* often as it is stored, in non-decreasing order of identifier
C7_ListIsSortedStore ==
    \A c \in Clients :
        (Done(c, "list") /\ resp[c].code = StatusOK) =>
           /\ Len(resp[c].doc) = Len(store)
           /\ \A i \in 1..Len(store) :
                 Occurrences(resp[c].doc, store[i]) = Occurrences(store, store[i])
           /\ \A i \in 1..Len(resp[c].doc), j \in 1..Len(resp[c].doc) :
                 i < j => Deref(resp[c].doc[i].id) <= Deref(resp[c].doc[j].id)

\* a list has answered 200 on a collection whose insertion order is not the
\* order of the identifiers
C7_Witness ==
    \E c \in Clients :
        /\ Done(c, "list") /\ resp[c].code = StatusOK
        /\ \E i \in 1..Len(store), j \in 1..Len(store) :
              i < j /\ Deref(store[i].id) > Deref(store[j].id)

\* the HTTP code that answers a request of kind op whose access layer status
\* is status; status "" is a request the validation turned down
CodeFor(op, status) ==
    IF status = "" THEN StatusBadRequest
    ELSE IF status = OK
         THEN (IF op = "create" THEN StatusCreated
               ELSE IF op = "delete" THEN StatusNoContent ELSE StatusOK)
    ELSE IF status = NotFound /\ op \in {"get", "update", "delete"} THEN StatusNotFound
    ELSE IF status = CouldNotProceed THEN StatusBadGateway
    ELSE StatusInternalServerError

\* C8: a handler that has ended has sent exactly one response, with the code
\* its terminal status stands for, and a handler that has not ended has sent
\* none
C8_OneResponsePerRequest ==
    \A c \in Clients :
        /\ pc[c] = "done" =>
              /\ resp[c].sent = 1
              /\ resp[c].code = CodeFor(req[c].op, resp[c].status)
              /\ resp[c].status = "" <=> resp[c].calls = 0
        /\ pc[c] # "done" => resp[c].sent = 0

\* a create has been answered 500: its record was gone at the re-fetch
C8_Witness ==
    \E c \in Clients :
        /\ Done(c, "create")
        /\ resp[c].status = ImplementationError
        /\ resp[c].code = StatusInternalServerError
        /\ resp[c].sent = 1

\* the validation layer turns request r down
Rejected(r) ==
    \/ /\ r.op \in {"get", "update", "delete"}
       /\ ~\E i \in 0..MaxId : r.param = toString(i)
    \/ /\ r.op = "create"
       /\ r.body.malformed \/ ~EveryFieldPresent(r.body.doc)
    \/ /\ r.op = "update"
       /\ \/ r.body.malformed
          \/ ~SomeFieldPresent(r.body.doc)
          \/ ~IsNil(r.body.doc.id) /\ toString(Deref(r.body.doc.id)) # r.param

\* C9: a request the validation layer turns down is answered 400 in the step
\* that received it, without a store call and with the collection as it was
C9_RejectedNeverReachesStore ==
    [][\A c \in Clients :
          (pc[c] = "idle" /\ pc'[c] # "idle" /\ Rejected(req'[c])) =>
             /\ pc'[c] = "done"
             /\ resp'[c].sent = 1
             /\ resp'[c].code = StatusBadRequest
             /\ resp'[c].calls = 0
             /\ store' = store]_vars

\* a PATCH with mismatching identifiers has been answered 400 on a collection
\* that holds the record of its path identifier
C9_Witness ==
    \E c \in Clients :
        /\ IdMismatch(c) /\ IdConflictResponse(c)
        /\ Matching(store, toInt(req[c].param).val) # {}

\* C10: a request one of whose store calls failed ends with CouldNotProceed and
\* 502 in the step of that call, which leaves the collection as it was; so a
\* create whose getNewId read failed has inserted nothing
C10_StoreFailureIsCouldNotProceed ==
    [][\A c \in Clients :
          resp'[c].failed =>
             /\ pc'[c] = "done"
             /\ resp'[c].status = CouldNotProceed
             /\ resp'[c].code = StatusBadGateway
             /\ resp'[c].sent = 1
             /\ store' = store]_vars

\* a create has been answered 502 after its re-fetch failed, the record it
\* inserted being stored
C10_Witness ==
    \E c \in Clients :
        /\ Done(c, "create")
        /\ resp[c].failed /\ resp[c].calls = 3
        /\ resp[c].code = StatusBadGateway
        /\ Matching(store, loc[c].id) # {}

\* client c's create has just inserted its document
Inserted(c) == pc[c] = "insert" /\ pc'[c] = "refetch"

\* the creates that hold a new identifier, inserted or not
HoldingNewId == {c \in Clients : req[c].op = "create" /\ pc[c] \in {"insert", "refetch"}}

\* C11: two creates that read the same highest identifier hold the same new
\* identifier, and the insert of a create succeeds also when its identifier
\* is stored already, so that one more record carries that identifier
C11_RacingCreatesDuplicateId ==
    [][/\ \A c1, c2 \in HoldingNewId' :
             (loc'[c1].seen = loc'[c2].seen) => (loc'[c1].id = loc'[c2].id)
       /\ \A c \in Clients :
             Inserted(c) =>
                /\ Len(store') = Len(store) + 1
                /\ Cardinality(Matching(store', loc[c].id)) =
                      Cardinality(Matching(store, loc[c].id)) + 1]_vars

\* two creates read the same collection, both computed the same identifier
\* and both inserted: two stored records carry it
C11_Witness ==
    \E c1, c2 \in Clients :
        /\ c1 # c2
        /\ pc[c1] = "refetch" /\ pc[c2] = "refetch"
        /\ req[c1].op = "create" /\ req[c2].op = "create"
        /\ loc[c1].seen = loc[c2].seen
        /\ loc[c1].id = loc[c2].id
        /\ Cardinality(Matching(store, loc[c1].id)) = 2

\* C12: in a service that receives no PATCH, a create that returns 201
\* returns the record it inserted: the new identifier with the title, content
\* and signee of the request body
C12_CreatedIsWhatWasSubmitted ==
    \A c \in Clients :
        (Done(c, "create") /\ resp[c].code = StatusCreated)
        => /\ Len(resp[c].doc) = 1
           /\ resp[c].doc[1] = OverwriteId(req[c].body.doc, loc[c].id)

\* client c's create or update has just made its closing re-fetch
Refetched(c) == pc[c] = "refetch" /\ pc'[c] = "done"

\* C13: the re-fetch that closes a create or an update ends with
\* CouldNotProceed (502) if the store call failed, with ImplementationError
\* (500) if no record carries the identifier any more, and with OK otherwise;
\* so a create never ends with NotFound, and an update ends with NotFound only
\* at its field-level update, the first of its store calls
C13_RefetchNeverNotFound ==
    [][\A c \in Clients :
          /\ Refetched(c) =>
                /\ resp'[c].status =
                      IF resp'[c].failed THEN CouldNotProceed
                      ELSE IF Matching(store, loc[c].id) = {} THEN ImplementationError
                      ELSE OK
                /\ resp'[c].code =
                      IF resp'[c].failed THEN StatusBadGateway
                      ELSE IF Matching(store, loc[c].id) = {}
                           THEN StatusInternalServerError
                      ELSE IF req[c].op = "create" THEN StatusCreated
                      ELSE StatusOK
          /\ (pc'[c] = "done" /\ req'[c].op = "create")
                => (resp'[c].status # NotFound /\ resp'[c].code # StatusNotFound)
          /\ (pc'[c] = "done" /\ req'[c].op = "update" /\ resp'[c].status = NotFound)
                => /\ pc[c] = "idle"
                   /\ resp'[c].calls = 1
                   /\ Matching(store, toInt(req'[c].param).val) = {}]_vars

\* an update whose record was deleted between its field-level update and its
\* re-fetch has ended with ImplementationError and 500
C13_Witness ==
    \E c \in Clients :
        /\ Done(c, "update")
        /\ resp[c].calls = 2 /\ ~resp[c].failed
        /\ loc[c].id \in deleted
        /\ Matching(store, loc[c].id) = {}
        /\ resp[c].status = ImplementationError
        /\ resp[c].code = StatusInternalServerError

\* client c's PATCH of identifier i has just passed the validation and
\* issued its field-level update, which returned without an error
UpdateIssued(c, i) ==
    /\ pc[c] = "idle" /\ pc'[c] # "idle"
    /\ req'[c].op = "update"
    /\ req'[c].param = toString(i)
    /\ resp'[c].calls = 1 /\ ~resp'[c].failed

\* the positions at which two collections of equal length differ
Changed(coll1, coll2) == {j \in 1..Len(coll1) : coll1[j] # coll2[j]}

\* C14: an update of an identifier no record carries ends with NotFound (404)
\* and leaves the collection as it was; every update leaves the number of
\* records and every record's identifier as they were and changes at most one
\* record, whose identifier is the update's; the re-fetch that makes it
\* return OK changes nothing
C14_UpdateKeepsRecordsAndIds ==
    [][\A c \in Clients :
          /\ \A i \in 0..MaxId :
                UpdateIssued(c, i) =>
                   /\ Len(store') = Len(store)
                   /\ \A j \in 1..Len(store) : store'[j].id = store[j].id
                   /\ Cardinality(Changed(store, store')) <= 1
                   /\ \A j \in Changed(store, store') : store[j].id = Ptr(i)
                   /\ (Matching(store, i) = {})
                         => /\ store' = store
                            /\ pc'[c] = "done"
                            /\ resp'[c].status = NotFound
                            /\ resp'[c].code = StatusNotFound
                   /\ (Matching(store, i) # {}) => pc'[c] = "refetch"
          /\ (req[c].op = "update" /\ pc[c] # "idle" /\ pc'[c] # pc[c])
                => store' = store]_vars

\* an update of identifier 1 has changed the one record that carries it, next
\* to a record with identifier 0, and has returned OK
C14_Witness ==
    \E c \in Clients :
        /\ Done(c, "update") /\ resp[c].status = OK
        /\ req[c].param = toString(1)
        /\ Len(store) >= 2
        /\ Cardinality(Matching(store, 1)) = 1
        /\ Matching(store, 0) # {}
        /\ FieldOf(store[Min(Matching(store, 1))], "content.header") = Ptr("b")
        /\ \A j \in Matching(store, 0) : FieldOf(store[j], "content.header") = Ptr("a")

\* the patch documents that carry no identifier
PatchesWithoutId == {d \in DocumentsOver({}, {"b"}) : isValidPatchDocument(d)}

\* C15: updateDocument called with a patch that carries no identifier returns
\* ImplementationError without a store call, whatever the collection holds; a
\* PATCH that passes the validation calls updateDocument with the path
\* identifier, also when the body carries none, and so never ends with the
\* ImplementationError of an absent identifier
C15_AbsentIdOnlyBelowHandler ==
    /\ \A d \in PatchesWithoutId, fail \in BOOLEAN :
          LET u == updateDocument(store, d, fail)
          IN  u.status = ImplementationError /\ u.calls = 0 /\ u.coll = store
    /\ \A c \in Clients :
          (req[c].op = "update" /\ ValidateUpdate(req[c].param, req[c].body).ok)
          => /\ ValidateUpdate(req[c].param, req[c].body).patchDocument.id
                   = Ptr(toInt(req[c].param).val)
             /\ resp[c].calls >= 1
             /\ (pc[c] = "refetch") =>
                   /\ loc[c].id = toInt(req[c].param).val
                   /\ loc[c].document.id = Ptr(loc[c].id)
             /\ (pc[c] = "done" /\ resp[c].status = ImplementationError)
                   => resp[c].calls = 2

\* a PATCH /documents/0 whose body carries a title and no identifier has
\* reached the store with identifier 0
C15_Witness ==
    \E c \in Clients :
        /\ pc[c] = "refetch" /\ req[c].op = "update"
        /\ req[c].param = toString(0)
        /\ IsNil(req[c].body.doc.id)
        /\ ~IsNil(req[c].body.doc.title)
        /\ loc[c].document.id = Ptr(0)
        /\ store[1].title = req[c].body.doc.title

\* C16: a request whose deadline has passed while its store call was
\* outstanding eventually writes a response
C16_ExpiredCallEndsRequest ==
    \A c \in Clients : (pc[c] = "expired") ~> (pc[c] = "done")

\* C17: with the creates executed one at a time, no two stored records carry
\* the same identifier, whatever gets, updates and deletes come between
C17_SerialCreatesUniqueIds ==
    \A i, j \in 1..Len(store) : (i # j) => (store[i].id # store[j].id)

\* the record with the highest identifier was deleted and the next create,
\* reading a collection that still holds a record, has been handed that
\* identifier again
C17_Witness ==
    \E c \in Clients :
        /\ pc[c] = "insert" /\ req[c].op = "create"
        /\ loc[c].seen # {}
        /\ loc[c].id \in deleted
        /\ loc[c].id = Max(loc[c].seen) + 1
        /\ Len(store) >= 1

\* a stored record with its identifier and its four fields present
WellFormed(rec) ==
    /\ ~IsNil(rec.id) /\ Deref(rec.id) >= 0
    /\ ~IsNil(rec.content)
    /\ \A f \in FieldNames : ~IsNil(FieldOf(rec, f))

\* C18: every stored record carries a present, non-negative identifier and a
\* present title, signee, content.header and content.data, so the record
\* getNewId reads the highest identifier from carries one
C18_StoredRecordsWellFormed ==
    /\ \A i \in 1..Len(store) : WellFormed(store[i])
    /\ (Len(store) > 0) => ~IsNil(Decode(Head(SortById(store, FALSE))).id)

\* a created record has been patched, another record has been deleted, and a
\* create has read the highest identifier of what is left
C18_Witness ==
    \E c \in Clients :
        /\ pc[c] = "insert"
        /\ loc[c].seen # {}
        /\ deleted # {}
        /\ \E i \in 1..Len(store) :
              /\ FieldOf(store[i], "content.header") = Ptr("b")
              /\ FieldOf(store[i], "content.data") = Ptr("a")

====
